---- MODULE Spec2Model ----
(***************************************************************************)
(* In-page translator of src/liq.js: text extraction, the two-tier        *)
(* translation cache, the remote translation client, the page mutator and *)
(* the load-time wiring, as a state machine.                              *)
(*                                                                         *)
(* A JavaScript string is a sequence of one-character strings, so that    *)
(* trimming, quote stripping, the extraction regexes and the concatenated *)
(* cache keys are computed character by character, as the code does.      *)
(***************************************************************************)
EXTENDS Integers, Sequences, FiniteSets, TLC

VARIABLES
    html,            \* the served document: one entry per text node of document.body
    text,            \* node.textContent of every text node, in document order
    originalTexts,   \* Translator.originalTexts: Map node -> TextRecord, insertion ordered
    cache,           \* Translator.cache: Map cacheKey -> translated
    localStorage,    \* window.localStorage: key -> value, survives a reload
    currentLang,     \* Translator.currentLang
    isTranslating,   \* Translator.isTranslating
    loading,         \* #translationLoading is displayed
    selectDisabled,  \* #languageSelect.disabled
    selectValue,     \* #languageSelect.value
    docLang,         \* document.documentElement.lang
    runs,            \* translateToLanguage activations suspended at an await
    timers,          \* pending setTimeout callbacks of the DOMContentLoaded handler
    sessions,        \* page loads so far
    started,         \* translatePage calls so far that passed the guard of line 62
    requested,       \* the (node, language) pairs getCachedTranslation was called for
    lastCall         \* the handler that ran last, its arguments and its result

vars == <<html, text, originalTexts, cache, localStorage, currentLang, isTranslating,
          loading, selectDisabled, selectValue, docLang, runs, timers, sessions, started,
          requested, lastCall>>

(***************************************************************************)
(* Bounds of the model.                                                    *)
(***************************************************************************)
MaxNodes == 2        \* text nodes of a document of Spec
MaxSessions == 2     \* page loads of one behaviour
MaxRuns == 2         \* translatePage calls of one behaviour that pass the guard
MaxDocNodes == 2     \* text nodes of a document of SpecExtract
MaxBatchNodes == 9   \* text nodes of the longest document of BatchSpec

(***************************************************************************)
(* Strings                                                                 *)
(***************************************************************************)
Empty == << >>
en == <<"e", "n">>
fr == <<"f", "r">>
de == <<"d", "e">>
es == <<"e", "s">>

Digits == {"0", "1", "2", "3", "4", "5", "6", "7", "8", "9"}
WhiteSpace == {" ", "\n", "\t"}
Quote == "\""

\* String.prototype.toLowerCase on the letters the extraction regex names
LowerCase(c) ==
    CASE c = "H" -> "h"
      [] c = "T" -> "t"
      [] c = "P" -> "p"
      [] c = "W" -> "w"
      [] OTHER -> c

RECURSIVE TrimStart(_)
TrimStart(s) ==
    IF s # Empty /\ Head(s) \in WhiteSpace THEN TrimStart(Tail(s)) ELSE s

RECURSIVE TrimEnd(_)
TrimEnd(s) ==
    IF s # Empty /\ s[Len(s)] \in WhiteSpace THEN TrimEnd(SubSeq(s, 1, Len(s) - 1)) ELSE s

\* String.prototype.trim
Trim(s) == TrimEnd(TrimStart(s))

\* s.startsWith(p), case-insensitively
StartsWithI(s, p) ==
    /\ Len(s) >= Len(p)
    /\ \A k \in 1..Len(p) : LowerCase(s[k]) = p[k]

\* /^\d+$/.test(s)
IsNumeric(s) == s # Empty /\ \A k \in 1..Len(s) : s[k] \in Digits

\* /^(http|www\.|@)/i.test(s)
IsUrlLike(s) ==
    \/ StartsWithI(s, <<"h", "t", "t", "p">>)
    \/ StartsWithI(s, <<"w", "w", "w", ".">>)
    \/ StartsWithI(s, <<"@">>)

\* s.replace(/^"|"$/g, ''): one leading quote, then one trailing quote of what is left
StripQuotes(s) ==
    LET a == IF s # Empty /\ Head(s) = Quote THEN Tail(s) ELSE s
    IN  IF a # Empty /\ a[Len(a)] = Quote THEN SubSeq(a, 1, Len(a) - 1) ELSE a

\* the normalisation without the quote stripping
NormalizeTrimOnly(s) == Trim(s)

\* translated.replace(/^"|"$/g, '').trim()
Normalize(s) == Trim(StripQuotes(s))

\* `${text}_${targetLang}`
CacheKey(t, lang) == t \o <<"_">> \o lang

\* `translation_${cacheKey}`
LocalStorageKey(key) ==
    <<"t", "r", "a", "n", "s", "l", "a", "t", "i", "o", "n", "_">> \o key

\* 'site_language'
SiteLanguageKey == <<"s", "i", "t", "e", "_", "l", "a", "n", "g", "u", "a", "g", "e">>

\* Map.prototype.set / Storage.setItem
MapSet(m, k, v) == (k :> v) @@ m

EmptyMap == [k \in {} |-> Empty]

(***************************************************************************)
(* Text extraction                                                         *)
(***************************************************************************)
Nodes == 1..Len(html)

\* acceptNode without the URL and handle test of line 27
AcceptNodeNoUrlTest(n) ==
    LET t == Trim(text[n])
    IN  /\ html[n].parentTag # "option"
        /\ ~html[n].noTranslate
        /\ t # Empty /\ Len(t) >= 2
        /\ ~IsNumeric(t)

\* the acceptNode filter of the tree walker, on the node's current text
AcceptNode(n) ==
    LET t == Trim(text[n])
    IN  /\ html[n].parentTag # "option"
        /\ ~html[n].noTranslate
        /\ t # Empty /\ Len(t) >= 2
        /\ ~IsNumeric(t)
        /\ ~IsUrlLike(t)

RECURSIVE Walk(_)
\* the nodes the walker yields among 1..n, in document order
Walk(n) ==
    IF n = 0 THEN << >>
    ELSE IF AcceptNode(n) THEN Append(Walk(n - 1), n) ELSE Walk(n - 1)

Has(recs, n) == \E k \in 1..Len(recs) : recs[k].node = n
Get(recs, n) == recs[CHOOSE k \in 1..Len(recs) : recs[k].node = n]
Recorded == {originalTexts[k].node : k \in 1..Len(originalTexts)}

RECURSIVE RecordOverwrite(_, _, _)
\* the forEach without the has(node) test: a node met again is recorded anew,
\* with the text it shows now
RecordOverwrite(recs, found, k) ==
    IF k > Len(found) THEN recs
    ELSE LET n == found[k]
             t == Trim(text[n])
             rec == [node |-> n, id |-> <<"text_", k - 1>>, original |-> t,
                     parentTag |-> html[n].parentTag]
         IN  IF t = Empty THEN RecordOverwrite(recs, found, k + 1)
             ELSE IF Has(recs, n)
                  THEN RecordOverwrite([j \in 1..Len(recs) |->
                                           IF recs[j].node = n THEN rec ELSE recs[j]],
                                       found, k + 1)
                  ELSE RecordOverwrite(Append(recs, rec), found, k + 1)

RECURSIVE Record(_, _, _)
\* nodes.forEach((node, index) => ...) from position k on
Record(recs, found, k) ==
    IF k > Len(found) THEN recs
    ELSE LET n == found[k]
             t == Trim(text[n])
         IN  IF t # Empty /\ ~Has(recs, n)
             THEN Record(Append(recs, [node |-> n, id |-> <<"text_", k - 1>>,
                                       original |-> t,
                                       parentTag |-> html[n].parentTag]),
                         found, k + 1)
             ELSE Record(recs, found, k + 1)

ExtractedRecords == Record(originalTexts, Walk(Len(html)), 1)

(***************************************************************************)
(* Translation cache and client                                            *)
(***************************************************************************)
batchSize == 8

\* the values of the language control's options
Options == {en, fr, de}

\* what the remote service may answer: fetch or response.json() rejects
\* ("network"), a non-ok HTTP status ("http"), a responseStatus other than 200
\* ("status"), or responseStatus 200 ("ok"); translatedText is Empty when the
\* body has none
Bonjour == <<"B", "o", "n", "j", "o", "u", "r", " ", "l", "e", " ", "m", "o", "n", "d", "e">>
Salut == <<"S", "a", "l", "u", "t">>
QuotedBonjour == <<Quote>> \o Bonjour \o <<Quote>>
Payloads == {QuotedBonjour, <<Quote, Quote>>}
Responses ==
    [kind : {"network", "http"}, translatedText : {Empty}]
        \cup [kind : {"status"}, translatedText : {Salut}]
        \cup [kind : {"ok"}, translatedText : {Empty} \cup Payloads]

\* getCachedTranslation up to its first await: the memory tier, then the
\* persisted tier; a miss issues the remote call
Lookup(c, ls, t, lang) ==
    LET key == CacheKey(t, lang)
        lsKey == LocalStorageKey(key)
    IN  IF key \in DOMAIN c
        THEN [hit |-> TRUE, ret |-> c[key], cache |-> c]
        ELSE IF lsKey \in DOMAIN ls /\ ls[lsKey] # Empty
             THEN [hit |-> TRUE, ret |-> ls[lsKey], cache |-> MapSet(c, key, ls[lsKey])]
             ELSE [hit |-> FALSE, ret |-> Empty, cache |-> c]

\* getCachedTranslation from the answer of the remote call on; quota tells
\* whether localStorage.setItem throws QuotaExceededError, stored whether both
\* tiers were written
Resolve(c, ls, t, lang, resp, quota) ==
    LET key == CacheKey(t, lang)
        translated == Normalize(resp.translatedText)
    IN  IF resp.kind \in {"network", "http"}
        THEN [ret |-> t, cache |-> c, localStorage |-> ls, stored |-> FALSE]
        ELSE IF resp.kind # "ok" \/ resp.translatedText = Empty
             THEN [ret |-> t, cache |-> c, localStorage |-> ls, stored |-> FALSE]
             ELSE IF quota
                  THEN [ret |-> t, cache |-> MapSet(c, key, translated),
                        localStorage |-> ls, stored |-> FALSE]
                  ELSE [ret |-> translated, cache |-> MapSet(c, key, translated),
                        localStorage |-> MapSet(ls, LocalStorageKey(key), translated),
                        stored |-> TRUE]

(***************************************************************************)
(* Page mutator                                                            *)
(***************************************************************************)
\* if (translated && translated !== data.original) node.textContent = translated
Apply(txt, n, translated, original) ==
    IF translated # Empty /\ translated # original
    THEN [txt EXCEPT ![n] = translated]
    ELSE txt

\* restoreOriginal that stops after the first record
RestoreFirstOnly(txt, recs) ==
    [n \in DOMAIN txt |->
        IF recs # << >> /\ recs[1].node = n THEN recs[1].original ELSE txt[n]]

\* restoreOriginal
RestoreOriginal(txt, recs) ==
    [n \in DOMAIN txt |-> IF Has(recs, n) THEN Get(recs, n).original ELSE txt[n]]

RECURSIVE StartBatchUnbounded(_, _, _, _, _, _, _)
\* the batch taken as nodes.slice(i), without its upper end
StartBatchUnbounded(c, txt, pending, nodes, k, last, lang) ==
    IF k > Len(nodes) THEN [cache |-> c, text |-> txt, pending |-> pending]
    ELSE LET data == Get(originalTexts, nodes[k])
             l == Lookup(c, localStorage, data.original, lang)
         IN  IF l.hit
             THEN StartBatchUnbounded(l.cache, Apply(txt, nodes[k], l.ret, data.original),
                                      pending, nodes, k + 1, last, lang)
             ELSE StartBatchUnbounded(c, txt, pending \cup {nodes[k]}, nodes, k + 1, last,
                                      lang)

RECURSIVE StartBatch(_, _, _, _, _, _, _)
\* batch.map(async (node) => ...) up to the first macrotask: the calls run in
\* order up to their remote call, and the ones answered by a cache tier are
\* applied in the microtasks that follow
StartBatch(c, txt, pending, nodes, k, last, lang) ==
    IF k > last \/ k > Len(nodes) THEN [cache |-> c, text |-> txt, pending |-> pending]
    ELSE LET data == Get(originalTexts, nodes[k])
             l == Lookup(c, localStorage, data.original, lang)
         IN  IF l.hit
             THEN StartBatch(l.cache, Apply(txt, nodes[k], l.ret, data.original),
                             pending, nodes, k + 1, last, lang)
             ELSE StartBatch(c, txt, pending \cup {nodes[k]}, nodes, k + 1, last, lang)

\* the loop with its pause taken after the last batch too
InFlightPauseAfterLast(run) == run.pending # {} \/ run.i + batchSize <= Len(run.nodes)

\* nodes.slice(i, i + batchSize), each node with the language it is translated to
Batch(nodes, i, lang) ==
    {<<nodes[k], lang>> : k \in {j \in 1..Len(nodes) : i < j /\ j <= i + batchSize}}

\* the run is suspended: at the Promise.all of batch i, or at the pause after it
InFlight(run) == run.pending # {} \/ run.i + batchSize < Len(run.nodes)

\* translatePage's promise: the catch logs and swallows whatever the try threw
Settles(threw) == "resolved"

MkCall(op, lang, node, resp, ret, stored, effect, settled) ==
    [op |-> op, lang |-> lang, node |-> node, resp |-> resp, ret |-> ret,
     stored |-> stored, effect |-> effect, settled |-> settled]

NoResp == [kind |-> "none", translatedText |-> Empty]

\* the run stays suspended
Suspend(others, run, c, ls, txt) ==
    /\ runs' = others \cup {run}
    /\ cache' = c
    /\ localStorage' = ls
    /\ text' = txt
    /\ UNCHANGED <<currentLang, docLang>>

\* translatePage without its finally block: a throwing setItem leaves the busy
\* flag and the loading indicator set
FinishWithoutFinally(others, lang, c, ls, txt, quota) ==
    /\ runs' = others
    /\ cache' = c
    /\ text' = txt
    /\ currentLang' = lang
    /\ docLang' = lang
    /\ localStorage' = IF quota THEN ls ELSE MapSet(ls, SiteLanguageKey, lang)
    /\ isTranslating' = (quota /\ isTranslating)
    /\ loading' = (quota /\ loading)
    /\ selectDisabled' = (quota /\ selectDisabled)

\* translatePage after its await: lines 74-76, then the finally block; quota
\* tells whether localStorage.setItem('site_language', ...) throws
Finish(others, lang, c, ls, txt, quota) ==
    /\ runs' = others
    /\ cache' = c
    /\ text' = txt
    /\ currentLang' = lang
    /\ docLang' = lang
    /\ localStorage' = IF quota THEN ls ELSE MapSet(ls, SiteLanguageKey, lang)
    /\ isTranslating' = FALSE
    /\ loading' = FALSE
    /\ selectDisabled' = FALSE

\* the guard without the busy flag
SkipSameLangOnly(targetLang) == targetLang = currentLang

\* if (this.isTranslating || targetLang === this.currentLang) return
Skip(targetLang) == isTranslating \/ targetLang = currentLang

\* translatePage(targetLang) up to its first macrotask
TranslatePage(targetLang) ==
    IF Skip(targetLang)
    THEN /\ lastCall' = MkCall("translatePage", targetLang, 0, NoResp, Empty, FALSE, "noop",
                               Settles(FALSE))
         /\ UNCHANGED <<text, cache, localStorage, currentLang, docLang, isTranslating,
                        loading, selectDisabled, runs, started, requested>>
    ELSE /\ started < MaxRuns
         /\ started' = started + 1
         /\ IF targetLang = en
            THEN \E quota \in BOOLEAN :
                   /\ Finish(runs, en, cache, localStorage,
                             RestoreOriginal(text, originalTexts), quota)
                   /\ UNCHANGED requested
                   /\ lastCall' = MkCall("translatePage", en, 0, NoResp, Empty, FALSE,
                                         "finished", Settles(quota))
            ELSE LET nodes == [k \in 1..Len(originalTexts) |-> originalTexts[k].node]
                     b == StartBatch(cache, text, {}, nodes, 1, batchSize, targetLang)
                     run == [lang |-> targetLang, nodes |-> nodes, i |-> 0,
                             pending |-> b.pending, pauses |-> 0]
                 IN  /\ requested' = requested \cup Batch(nodes, 0, targetLang)
                     /\ IF InFlight(run)
                        THEN /\ Suspend(runs, run, b.cache, localStorage, b.text)
                             /\ isTranslating' = TRUE
                             /\ loading' = TRUE
                             /\ selectDisabled' = TRUE
                             /\ lastCall' = MkCall("translatePage", targetLang, 0, NoResp,
                                                   Empty, FALSE, "suspended", "pending")
                        ELSE \E quota \in BOOLEAN :
                               /\ Finish(runs, targetLang, b.cache, localStorage, b.text,
                                         quota)
                               /\ lastCall' = MkCall("translatePage", targetLang, 0,
                                                     NoResp, Empty, FALSE, "finished",
                                                     Settles(quota))

(***************************************************************************)
(* Documents                                                               *)
(***************************************************************************)
HelloWorld == <<"H", "e", "l", "l", "o", " ", "w", "o", "r", "l", "d">>
PaddedHi == <<" ", "H", "i">>
Twelve == <<"1", "2">>

TextNode(t, tag, optOut) == [text |-> t, parentTag |-> tag, noTranslate |-> optOut]

\* the text nodes a page of Spec is made of
PageNodes == {TextNode(t, "p", FALSE) : t \in {HelloWorld, PaddedHi}}

SeqsUpTo(S, n) == UNION {[1..k -> S] : k \in 1..n}

Pages == SeqsUpTo(PageNodes, MaxNodes)

(***************************************************************************)
(* Load-time wiring                                                        *)
(***************************************************************************)
ExtractTimer == [kind |-> "extract", lang |-> en]
AutoTimer(lang) == [kind |-> "auto", lang |-> lang]

\* localStorage.getItem('site_language') || 'en'
SavedLang(ls) ==
    IF SiteLanguageKey \in DOMAIN ls /\ ls[SiteLanguageKey] # Empty
    THEN ls[SiteLanguageKey]
    ELSE en

\* the page as the DOMContentLoaded handler leaves it, for document doc and
\* persisted store ls
Load(doc, ls, nth) ==
    LET savedLang == SavedLang(ls)
        known == savedLang \in Options
    IN  [html |-> doc,
         text |-> [n \in 1..Len(doc) |-> doc[n].text],
         selectValue |-> IF known THEN savedLang ELSE en,
         docLang |-> IF known THEN savedLang ELSE en,
         timers |-> {ExtractTimer}
                        \cup (IF savedLang # en THEN {AutoTimer(savedLang)} ELSE {}),
         lastCall |-> [op |-> "load", lang |-> savedLang, node |-> 0,
                       resp |-> NoResp, ret |-> Empty, stored |-> FALSE,
                       effect |-> "finished",
                       settled |-> "none"]]

Init ==
    \E doc \in Pages :
        LET page == Load(doc, EmptyMap, 1)
        IN  /\ html = page.html
            /\ text = page.text
            /\ originalTexts = << >>
            /\ cache = EmptyMap
            /\ localStorage = EmptyMap
            /\ currentLang = en
            /\ isTranslating = FALSE
            /\ loading = FALSE
            /\ selectDisabled = FALSE
            /\ selectValue = page.selectValue
            /\ docLang = page.docLang
            /\ runs = {}
            /\ timers = page.timers
            /\ sessions = 1
            /\ started = 0
            /\ requested = {}
            /\ lastCall = page.lastCall

\* the page is loaded again: the document, the translator and the timers are
\* new, the persisted store is kept
Reload ==
    LET page == Load(html, localStorage, sessions + 1)
    IN  /\ sessions < MaxSessions
        /\ sessions' = sessions + 1
        /\ text' = page.text
        /\ originalTexts' = << >>
        /\ cache' = EmptyMap
        /\ currentLang' = en
        /\ isTranslating' = FALSE
        /\ loading' = FALSE
        /\ selectDisabled' = FALSE
        /\ selectValue' = page.selectValue
        /\ docLang' = page.docLang
        /\ runs' = {}
        /\ timers' = page.timers
        /\ lastCall' = page.lastCall
        /\ requested' = {}
        /\ UNCHANGED <<html, localStorage, started>>

\* extractText(), from the 500 ms timer or through window.translator
ExtractText ==
    /\ originalTexts' = ExtractedRecords
    /\ lastCall' = MkCall("extractText", en, 0, NoResp, Empty, FALSE, "finished", "none")
    /\ UNCHANGED <<html, text, cache, localStorage, currentLang, isTranslating, loading,
                   selectDisabled, selectValue, docLang, runs, sessions, started,
                   requested>>

ExtractTimeout ==
    /\ ExtractTimer \in timers
    /\ timers' = timers \ {ExtractTimer}
    /\ ExtractText

ExtractCall ==
    /\ UNCHANGED timers
    /\ ExtractText

\* the 1000 ms timer: it was set after the 500 ms one, and runs after it
AutoTranslate ==
    \E t \in timers :
        /\ t.kind = "auto"
        /\ ExtractTimer \notin timers
        /\ timers' = timers \ {t}
        /\ TranslatePage(t.lang)
        /\ UNCHANGED <<html, originalTexts, selectValue, sessions>>

\* the user picks an option of the language control
Change ==
    \E lang \in Options :
        /\ ~selectDisabled
        /\ selectValue' = lang
        /\ TranslatePage(lang)
        /\ UNCHANGED <<html, originalTexts, timers, sessions>>

\* the remote call of node n answers: the rest of getCachedTranslation, the
\* node's update, and, when it was the last one outstanding, what follows the
\* Promise.all; resps are the answers of the service and quotas the outcomes
\* of localStorage.setItem that the environment produces
Respond(resps, quotas) ==
    \E run \in runs : \E n \in run.pending : \E resp \in resps :
    \E quotaCache \in quotas, quotaPref \in quotas :
        LET data == Get(originalTexts, n)
            r == Resolve(cache, localStorage, data.original, run.lang, resp, quotaCache)
            txt == Apply(text, n, r.ret, data.original)
            rest == [run EXCEPT !.pending = @ \ {n}]
        IN  /\ IF InFlight(rest)
               THEN /\ Suspend(runs \ {run}, rest, r.cache, r.localStorage, txt)
                    /\ lastCall' = MkCall("response", run.lang, n, resp, r.ret, r.stored,
                                          "suspended", "pending")
                    /\ UNCHANGED <<isTranslating, loading, selectDisabled>>
               ELSE /\ Finish(runs \ {run}, run.lang, r.cache, r.localStorage, txt, quotaPref)
                    /\ lastCall' = MkCall("response", run.lang, n, resp, r.ret, r.stored,
                                          "finished", Settles(quotaPref))
            /\ UNCHANGED <<html, originalTexts, selectValue, timers, sessions, started,
                           requested>>

FetchResponse == Respond(Responses, BOOLEAN)

\* the 300 ms pause after batch i is over: the next batch starts
PauseElapsed ==
    \E run \in runs : \E quotaPref \in BOOLEAN :
        /\ run.pending = {}
        /\ LET i == run.i + batchSize
               b == StartBatch(cache, text, {}, run.nodes, i + 1, i + batchSize, run.lang)
               next == [run EXCEPT !.i = i, !.pending = b.pending, !.pauses = @ + 1]
           IN  IF InFlight(next)
               THEN /\ Suspend(runs \ {run}, next, b.cache, localStorage, b.text)
                    /\ lastCall' = MkCall("pause", run.lang, 0, NoResp, Empty, FALSE,
                                          "suspended", "pending")
                    /\ UNCHANGED <<isTranslating, loading, selectDisabled>>
               ELSE /\ Finish(runs \ {run}, run.lang, b.cache, localStorage, b.text, quotaPref)
                    /\ lastCall' = MkCall("pause", run.lang, 0, NoResp, Empty, FALSE,
                                          "finished", Settles(quotaPref))
        /\ requested' = requested \cup Batch(run.nodes, run.i + batchSize, run.lang)
        /\ UNCHANGED <<html, originalTexts, selectValue, timers, sessions, started>>

Next ==
    \/ ExtractTimeout
    \/ ExtractCall
    \/ AutoTranslate
    \/ Change
    \/ FetchResponse
    \/ Reload

Spec == Init /\ [][Next]_vars

(***************************************************************************)
(* Extraction alone, on documents that hold every kind of node the filter  *)
(* tells apart.                                                            *)
(***************************************************************************)
ExtractTexts ==
    {Empty, <<"a">>, <<" ", "a", " ">>, Twelve, <<" ", "1", "2">>, <<"1", "a">>,
     <<"H", "t", "t", "p", ":">>, <<"h", "t", "t">>, <<"W", "w", "w", ".">>,
     <<"w", "w", "w">>, <<"@", "a">>, PaddedHi}

ExtractNodes ==
    {TextNode(t, tag, optOut) :
        t \in ExtractTexts, tag \in {"p", "option", "script"}, optOut \in BOOLEAN}

ExtractPages == SeqsUpTo(ExtractNodes, MaxDocNodes)

InitExtract ==
    \E doc \in ExtractPages :
        LET page == Load(doc, EmptyMap, 1)
        IN  /\ html = page.html
            /\ text = page.text
            /\ originalTexts = << >>
            /\ cache = EmptyMap
            /\ localStorage = EmptyMap
            /\ currentLang = en
            /\ isTranslating = FALSE
            /\ loading = FALSE
            /\ selectDisabled = FALSE
            /\ selectValue = page.selectValue
            /\ docLang = page.docLang
            /\ runs = {}
            /\ timers = page.timers
            /\ sessions = 1
            /\ started = 0
            /\ requested = {}
            /\ lastCall = page.lastCall

NextExtract ==
    \/ ExtractTimeout
    \/ ExtractCall

SpecExtract == InitExtract /\ [][NextExtract]_vars

(***************************************************************************)
(* One page session of a first-time or returning visitor.                  *)
(***************************************************************************)
InitSession ==
    \E doc \in Pages : \E ls \in {EmptyMap, MapSet(EmptyMap, SiteLanguageKey, fr)} :
        LET page == Load(doc, ls, 1)
        IN  /\ html = page.html
            /\ text = page.text
            /\ originalTexts = << >>
            /\ cache = EmptyMap
            /\ localStorage = ls
            /\ currentLang = en
            /\ isTranslating = FALSE
            /\ loading = FALSE
            /\ selectDisabled = FALSE
            /\ selectValue = page.selectValue
            /\ docLang = page.docLang
            /\ runs = {}
            /\ timers = page.timers
            /\ sessions = 1
            /\ started = 0
            /\ requested = {}
            /\ lastCall = page.lastCall

NextSession ==
    \/ ExtractTimeout
    \/ ExtractCall
    \/ AutoTranslate
    \/ Change
    \/ FetchResponse

SessionSpec == InitSession /\ [][NextSession]_vars

\* one page session on the document <p>Hello world</p>
InitScenario == InitSession /\ html = <<TextNode(HelloWorld, "p", FALSE)>>

ScenarioSpec == InitScenario /\ [][NextSession]_vars

\* every remote call that was issued answers
FairSpec == SessionSpec /\ WF_vars(FetchResponse)

(***************************************************************************)
(* Page loads of the document <p>Hello world</p>, with the translator that *)
(* line 184 exposes as window.translator called by other scripts.          *)
(***************************************************************************)
\* a language code that is the value of no option of the language control
Codes == Options \cup {es}

\* window.translator.translatePage(lang)
TranslatePageCall ==
    \E lang \in Codes :
        /\ TranslatePage(lang)
        /\ UNCHANGED <<html, originalTexts, selectValue, timers, sessions>>

InitLoad == Init /\ html = <<TextNode(HelloWorld, "p", FALSE)>>

NextLoad ==
    \/ ExtractTimeout
    \/ AutoTranslate
    \/ Change
    \/ TranslatePageCall
    \/ FetchResponse
    \/ Reload

LoadSpec == InitLoad /\ [][NextLoad]_vars

(***************************************************************************)
(* The load of a returning visitor whose saved language is 'fr', on        *)
(* documents of no node, one node, one full batch and more than one batch. *)
(***************************************************************************)
BatchLens == {0, 1, batchSize, MaxBatchNodes}

\* a document of n paragraphs; the ones after the first batch have another text
BatchPage(n) ==
    [k \in 1..n |-> TextNode(IF k <= batchSize THEN HelloWorld ELSE PaddedHi, "p", FALSE)]

InitBatch ==
    \E n \in BatchLens :
        LET ls == MapSet(EmptyMap, SiteLanguageKey, fr)
            page == Load(BatchPage(n), ls, 1)
        IN  /\ html = page.html
            /\ text = page.text
            /\ originalTexts = << >>
            /\ cache = EmptyMap
            /\ localStorage = ls
            /\ currentLang = en
            /\ isTranslating = FALSE
            /\ loading = FALSE
            /\ selectDisabled = FALSE
            /\ selectValue = page.selectValue
            /\ docLang = page.docLang
            /\ runs = {}
            /\ timers = page.timers
            /\ sessions = 1
            /\ started = 0
            /\ requested = {}
            /\ lastCall = page.lastCall

\* the service is unreachable, or answers with a quoted translation or with
\* a pair of quotes; the persisted store has room
BatchResponses ==
    {[kind |-> "network", translatedText |-> Empty],
     [kind |-> "ok", translatedText |-> QuotedBonjour],
     [kind |-> "ok", translatedText |-> <<Quote, Quote>>]}

BatchResponse == Respond(BatchResponses, {FALSE})

NextBatch ==
    \/ ExtractTimeout
    \/ AutoTranslate
    \/ BatchResponse
    \/ PauseElapsed

BatchSpec == InitBatch /\ [][NextBatch]_vars

(***************************************************************************)
(* Properties                                                              *)
(***************************************************************************)
Original(n) == Get(originalTexts, n).original

FinishedBase ==
    /\ lastCall.op = "translatePage"
    /\ lastCall.lang = en
    /\ lastCall.effect = "finished"

\* a translation of n's text into lang that differs from it is in both tiers
Translated(n, lang) ==
    LET key == CacheKey(Original(n), lang)
    IN  /\ key \in DOMAIN cache
        /\ cache[key] \notin {Empty, Original(n)}
        /\ LocalStorageKey(key) \in DOMAIN localStorage
        /\ localStorage[LocalStorageKey(key)] = cache[key]

\* C1: when a translatePage('en') run has completed, the text of every
\* recorded node is the original text of its TextRecord, whatever the earlier
\* translatePage(L) runs and the outcomes of their remote calls were.
C1_RestoreReturnsOriginals ==
    FinishedBase => \A n \in Recorded : text[n] = Original(n)

\* C1 witness: the base language was restored on a page that has two recorded
\* nodes, one of which had been translated in this session.
C1_Witness ==
    /\ FinishedBase
    /\ Cardinality(Recorded) = 2
    /\ \E n \in Recorded : \E lang \in Options : Translated(n, lang)

HttpPrefixes ==
    {<<a, b, c, d>> : a \in {"h", "H"}, b \in {"t", "T"}, c \in {"t", "T"}, d \in {"p", "P"}}
WwwPrefixes ==
    {<<a, b, c, ".">> : a \in {"w", "W"}, b \in {"w", "W"}, c \in {"w", "W"}}

Prefix(s, k) == SubSeq(s, 1, IF Len(s) < k THEN Len(s) ELSE k)

\* C9: no recorded node has a trimmed text that is digits only, that begins
\* with http, www. or @ in any letter case, or that is shorter than 2
\* characters, and none has an option parent or an ancestor that opts out.
C9_RecordedNodesPassTheFilter ==
    \A n \in Recorded :
        LET t == Trim(text[n])
        IN  /\ Len(t) >= 2
            /\ \E k \in 1..Len(t) : t[k] \notin Digits
            /\ Prefix(t, 4) \notin HttpPrefixes \cup WwwPrefixes
            /\ Prefix(t, 1) # <<"@">>
            /\ html[n].parentTag # "option"
            /\ ~html[n].noTranslate

\* C9 witness: extractText has run on a document with a digits-only node and
\* a URL-like node, and recorded neither (a third kind is met by the page of
\* one accepted and one rejected node).
C9_Witness ==
    /\ lastCall.op = "extractText"
    /\ Len(html) = 2
    /\ \E n, m \in Nodes :
        /\ n \in Recorded
        /\ m \notin Recorded
        /\ html[m].parentTag = "p" /\ ~html[m].noTranslate
        /\ IsUrlLike(Trim(text[m]))

\* the remote call did not deliver a translation
Failed(resp) ==
    \/ resp.kind \in {"network", "http", "status"}
    \/ resp.kind = "ok" /\ resp.translatedText = Empty

\* C2: a getCachedTranslation call whose remote call failed returned its input
\* text, and neither cache tier holds an entry for its key.
C2_FailedCallLeavesNoEntry ==
    (lastCall.op = "response" /\ Failed(lastCall.resp)) =>
        LET key == CacheKey(Original(lastCall.node), lastCall.lang)
        IN  /\ lastCall.ret = Original(lastCall.node)
            /\ key \notin DOMAIN cache
            /\ LocalStorageKey(key) \notin DOMAIN localStorage

\* the remote calls a step issues
Issued(n) == (\E run \in runs' : n \in run.pending) /\ ~(\E run \in runs : n \in run.pending)

\* C3: once a successful translation of (text, lang) is in a cache tier, a
\* later getCachedTranslation(text, lang) issues no remote call, and the node
\* it was called for gets the cached value.
C3_CachedPairIsNotFetchedAgain ==
    [][/\ \A run \in runs' : \A n \in run.pending :
            LET key == CacheKey(Original(n), run.lang)
            IN  Issued(n) =>
                  /\ key \notin DOMAIN cache
                  /\ LocalStorageKey(key) \notin DOMAIN localStorage
       /\ (lastCall'.op = "translatePage" /\ lastCall'.effect # "noop"
              /\ lastCall'.lang # en)
          => \A n \in Recorded :
               LET key == CacheKey(Original(n), lastCall'.lang)
               IN  key \in DOMAIN cache =>
                     /\ cache'[key] = cache[key]
                     /\ cache[key] \notin {Empty, Original(n)} => text'[n] = cache[key]]_vars

\* C4: the value cached for a (text, lang) pair, in the memory tier and in the
\* persisted tier, does not change after it was first written.
C4_CachedValueNeverChanges ==
    [][/\ \A k \in DOMAIN cache \cap DOMAIN cache' : cache'[k] = cache[k]
       /\ \A k \in (DOMAIN localStorage \cap DOMAIN localStorage') \ {SiteLanguageKey} :
            localStorage'[k] = localStorage[k]]_vars

\* C5: a translatePage(targetLang) call made while a run is in flight, or for
\* the current language, changes no node text, cache entry, current language,
\* persisted entry, busy flag or loading indicator and starts no remote call;
\* and no state has two runs in flight.
C5_NoOpWhenBusyOrSameLang ==
    /\ [](Cardinality(runs) <= 1)
    /\ [][(lastCall'.op = "translatePage"
             /\ (isTranslating \/ lastCall'.lang = currentLang))
          => UNCHANGED <<text, cache, localStorage, currentLang, docLang, isTranslating,
                         loading, selectDisabled, runs, originalTexts>>]_vars

\* C5 witness: translatePage was called while a run was in flight, and
\* returned at once.
C5_Witness ==
    /\ lastCall.op = "translatePage"
    /\ lastCall.effect = "noop"
    /\ isTranslating
    /\ \E run \in runs : run.pending # {}

\* C6: in a page session whose remote calls all answer, a run that set the
\* busy flag clears it and hides the loading indicator, and translatePage's
\* promise never rejects.
C6_BusyFlagIsEventuallyCleared ==
    /\ isTranslating ~> (~isTranslating /\ ~loading)
    /\ [](lastCall.settled # "rejected")

\* C6 witness: a run whose last remote call failed and whose write of the
\* preference threw has ended, with the busy flag and the indicator cleared.
C6_Witness ==
    /\ lastCall.op = "response"
    /\ Failed(lastCall.resp)
    /\ lastCall.effect = "finished"
    /\ lastCall.settled = "resolved"
    /\ SiteLanguageKey \notin DOMAIN localStorage
    /\ ~isTranslating /\ ~loading /\ runs = {}

\* C7: when the remote call of a recorded node failed and the run has
\* completed, the call returned the original text and the node shows its
\* untranslated text.
C7_FailedNodeShowsOriginal ==
    (lastCall.op = "response" /\ Failed(lastCall.resp) /\ lastCall.effect = "finished") =>
        /\ lastCall.ret = Original(lastCall.node)
        /\ text[lastCall.node] \in {Original(lastCall.node), html[lastCall.node].text}

\* C8: a translatePage('en') request made while no run is in flight leaves
\* every recorded node with the original text of its TextRecord.
C8_BaseRequestRestores ==
    [][(lastCall'.op = "translatePage" /\ lastCall'.lang = en /\ ~isTranslating)
       => \A n \in Recorded : text'[n] = Original(n)]_vars

HelloWorldScenario == Len(originalTexts) = 1 /\ originalTexts[1].original = HelloWorld

\* C10: with the one recorded node 'Hello world', a successful answer
\* '"Bonjour le monde"' to translatePage('fr') whose cache writes went through
\* leaves the node's text and both cache tiers' (Hello world, fr) entries equal
\* to 'Bonjour le monde', and a completed translatePage('en') leaves the node's
\* text equal to 'Hello world'.
C10_HelloWorldScenario ==
    HelloWorldScenario =>
        LET n == originalTexts[1].node
            key == CacheKey(HelloWorld, fr)
        IN  /\ (/\ lastCall.op = "response"
                /\ lastCall.lang = fr
                /\ lastCall.resp = [kind |-> "ok", translatedText |-> QuotedBonjour]
                /\ lastCall.stored)
               => /\ text[n] = Bonjour
                  /\ key \in DOMAIN cache /\ cache[key] = Bonjour
                  /\ LocalStorageKey(key) \in DOMAIN localStorage
                  /\ localStorage[LocalStorageKey(key)] = Bonjour
            /\ FinishedBase => text[n] = HelloWorld

\* C10 witness: the scenario has run to its end: the translation is in both
\* tiers and the base language was restored.
C10_Witness ==
    /\ HelloWorldScenario
    /\ FinishedBase
    /\ started = 2
    /\ Translated(originalTexts[1].node, fr)
    /\ cache[CacheKey(HelloWorld, fr)] = Bonjour
    /\ text[originalTexts[1].node] = HelloWorld

\* the step is the 1000 ms timer's callback, and its translatePage call passed
\* the guard of line 62
AutoRunStarts(t) ==
    /\ t.kind = "auto"
    /\ t \in timers /\ t \notin timers'
    /\ lastCall'.op = "translatePage"
    /\ lastCall'.effect # "noop"

\* C11: a page load pre-applies the saved language code to the language
\* control and to the document only if the code is the value of an option, and
\* the automatic translatePage of the load starts a run only for a saved code
\* that is the value of an option and is not the base language.
C11_SavedCodeNeedsAnOption ==
    [][/\ lastCall'.op = "load" =>
            /\ (selectValue' = lastCall'.lang) <=> (lastCall'.lang \in Options)
            /\ (docLang' = lastCall'.lang) <=> (lastCall'.lang \in Options)
       /\ \A t \in timers : AutoRunStarts(t) => t.lang \in Options \ {en}]_vars

\* the step belongs to a translateToLanguage run
RunStep ==
    \/ lastCall'.op \in {"response", "pause"}
    \/ lastCall'.op = "translatePage" /\ lastCall'.effect # "noop" /\ lastCall'.lang # en

\* the nodes of the batch a step of a run works on: the first batch when the
\* step starts the run, the next one when it ends a pause
StepBatch ==
    IF lastCall'.op = "translatePage"
    THEN {originalTexts[k].node : k \in {j \in 1..Len(originalTexts) : j <= 8}}
    ELSE UNION {{run.nodes[k] :
                    k \in {j \in 1..Len(run.nodes) :
                              LET i == IF lastCall'.op = "pause" THEN run.i + 8 ELSE run.i
                              IN  i < j /\ j <= i + 8}} : run \in runs}

\* the nodes of the batch the run is at, and the nodes of the batches after it
CurrentBatch(run) ==
    {run.nodes[k] : k \in {j \in 1..Len(run.nodes) : run.i < j /\ j <= run.i + 8}}
LaterBatches(run) ==
    {run.nodes[k] : k \in {j \in 1..Len(run.nodes) : run.i + 8 < j}}

\* C12: a run has at most 8 translations outstanding, all of them for nodes
\* of the batch it is at; no translation was requested for a node of a later
\* batch and no such node was changed; and a step changes the text of nodes of
\* the current batch only.
C12_BatchesAreSequential ==
    /\ [](\A run \in runs :
            /\ Cardinality(run.pending) <= 8
            /\ run.pending \subseteq CurrentBatch(run)
            /\ \A n \in LaterBatches(run) :
                  /\ <<n, run.lang>> \notin requested
                  /\ text[n] = html[n].text)
    /\ [](Cardinality(UNION {run.pending : run \in runs}) <= 8)
    /\ [][RunStep => \A n \in Nodes : text'[n] # text[n] => n \in StepBatch]_vars

\* C12 witness: the second batch has a remote call outstanding; in the first
\* batch the last node was translated and the first one was not.
C12_Witness ==
    \E run \in runs :
        /\ run.i = 8
        /\ run.pending # {}
        /\ text[run.nodes[8]] = Bonjour
        /\ text[run.nodes[1]] = HelloWorld
        /\ \A k \in 1..8 : <<run.nodes[k], run.lang>> \in requested

\* inside a batch a later node's translation has been applied while an
\* earlier node's remote call is outstanding
C12_AnyOrderInsideABatch ==
    \E run \in runs :
        /\ run.i = 0
        /\ Len(run.nodes) >= 8
        /\ run.nodes[1] \in run.pending
        /\ text[run.nodes[8]] = Bonjour

\* C13: a getCachedTranslation call that misses the memory tier and finds a
\* value in the persisted tier issues no remote call, and leaves that value in
\* the memory tier.
C13_PersistedHitIssuesNoCall ==
    [][/\ \A run \in runs' : \A n \in run.pending :
            LET key == CacheKey(Original(n), run.lang)
            IN  (Issued(n) /\ key \notin DOMAIN cache)
                    => LocalStorageKey(key) \notin DOMAIN localStorage
       /\ \A pair \in requested' \ requested :
            LET key == CacheKey(Original(pair[1]), pair[2])
            IN  (key \notin DOMAIN cache /\ LocalStorageKey(key) \in DOMAIN localStorage)
                    => /\ key \in DOMAIN cache'
                       /\ cache'[key] = localStorage[LocalStorageKey(key)]]_vars

\* ceil(n / 8) - 1 for n > 0, and 0 for n = 0
PausesOf(n) == IF n = 0 THEN 0 ELSE (n + 7) \div 8 - 1

\* C14: a run over n recorded nodes has paused once before each batch but the
\* first, ends after ceil(n / 8) - 1 pauses (none for n = 0), and a step of
\* the run sets a node's text only to a resolved translation that is not
\* empty and differs from the node's original text.
C14_OnePauseBetweenBatches ==
    /\ [](\A run \in runs : run.pauses * 8 = run.i)
    /\ [][/\ (lastCall'.op \in {"response", "pause"} /\ lastCall'.effect = "finished")
             => \A run \in runs \ runs' :
                  run.pauses + (IF lastCall'.op = "pause" THEN 1 ELSE 0)
                      = PausesOf(Len(run.nodes))
          /\ (lastCall'.op = "translatePage" /\ lastCall'.effect = "finished"
                /\ lastCall'.lang # en)
             => PausesOf(Len(originalTexts)) = 0
          /\ RunStep =>
               \A n \in Nodes :
                 text'[n] # text[n] =>
                   LET key == CacheKey(Original(n), lastCall'.lang)
                       translated == IF lastCall'.op = "response" /\ lastCall'.node = n
                                     THEN lastCall'.ret
                                     ELSE cache'[key]
                   IN  /\ text'[n] = translated
                       /\ translated # Empty
                       /\ translated # Original(n)]_vars

\* C14 witness: a run over more than 8 nodes has ended with the answer for a
\* node of its second batch; a node of the first batch shows its translation
\* and another, whose translation was empty or failed, its original text.
C14_Witness ==
    /\ lastCall.op = "response"
    /\ lastCall.effect = "finished"
    /\ Len(originalTexts) > 8
    /\ lastCall.node = originalTexts[Len(originalTexts)].node
    /\ currentLang = fr
    /\ runs = {}
    /\ text[originalTexts[1].node] = Bonjour
    /\ text[originalTexts[2].node] = HelloWorld
    /\ cache[CacheKey(HelloWorld, fr)] = Empty

\* C15: within a page session no step removes a TextRecord or changes its
\* node, id, original text or parent tag, and records are only added after
\* the ones there are.
C15_TextRecordsAreImmutable ==
    [][lastCall'.op # "load" =>
          /\ Len(originalTexts') >= Len(originalTexts)
          /\ \A k \in 1..Len(originalTexts) : originalTexts'[k] = originalTexts[k]]_vars

\* C15 witness: extractText was called while a recorded node shows a
\* translation, after a run has completed; the record still holds the text of
\* before the translation.
C15_Witness ==
    /\ lastCall.op = "extractText"
    /\ currentLang # en
    /\ runs = {}
    /\ \E n \in Recorded :
          /\ Translated(n, currentLang)
          /\ text[n] = cache[CacheKey(Original(n), currentLang)]
          /\ Original(n) = Trim(html[n].text)

\* C16: the original text of every TextRecord is the text content its node
\* had when it was extracted, leading and trailing whitespace included (no
\* step of the extraction changes a node's text).
C16_RecordHoldsTheNodeText ==
    \A n \in Recorded : Original(n) = text[n] /\ text[n] = html[n].text

\* C17: every key of the memory tier is a key of the persisted tier, with the
\* same value.
C17_TiersAgree ==
    \A key \in DOMAIN cache :
        /\ LocalStorageKey(key) \in DOMAIN localStorage
        /\ localStorage[LocalStorageKey(key)] = cache[key]

\* C18: when no run is in flight and the current language is not the base
\* language, getCachedTranslation was called with the current language for
\* every recorded node.
C18_CurrentLangWasRequested ==
    (runs = {} /\ ~isTranslating /\ currentLang # en) =>
        \A n \in Recorded : <<n, currentLang>> \in requested

====
